---- MODULE Spec2Model ----
(***************************************************************************)
(* The path layer of llarp (src/llarp/path.cpp): the PathContext registry  *)
(* of own Paths and TransitHops, Path construction and expiry, the layered *)
(* transform of HandleUpstream / HandleDownstream, SendRoutingMessage and  *)
(* ForwardLRCM; and the dict and list readers of                           *)
(* src/llarp/util/bencode.hpp.                                             *)
(***************************************************************************)
EXTENDS Integers, Sequences, FiniteSets, TLC

\* ------------------------------------------------------------------ bounds
MaxTime == 2        \* llarp_time_now_ms() stays within 0..MaxTime
MaxHandlers == 2    \* Paths and TransitHops handed to the registry, together
MaxNumHops == 3     \* llarp_path_hops::numHops of a constructed Path
MaxLen == 2         \* bytes in a payload buffer
MaxFrames == 3      \* frames in the queue handed to ForwardLRCM
MaxThreads == 2     \* worker threads calling into the PathContext

\* ------------------------------------------------------------ value domains
PathIDs == {1, 2}           \* PathID_t values
Routers == {"r1", "r2"}     \* RouterID values
Lifetimes == {1}            \* hop lifetimes, in clock ticks
Bytes == {0, 1, 2, 3}       \* byte_t values (two bits wide here)
Secrets == {1, 2}           \* SharedSecret values
Nonces == {0, 1}            \* TunnelNonce values
Frames == {"f1", "f2", "f3"}  \* EncryptedFrame values

VARIABLES
    now,             \* the clock read by llarp_time_now_ms()
    paths,           \* heap of Path objects; a Path* is an index into it
    transitHops,     \* heap of TransitHop objects; a TransitHop* is an index
    freed,           \* TransitHop* values that were passed to delete
    m_OurPaths,      \* own-paths multimap: sequence of [k, v] entries
    m_TransitPaths,  \* transit-paths multimap: sequence of [k, v] entries
    last,            \* the registry operation that returned last
    input,           \* the arguments of the call under study
    this,            \* the Path the call under study builds or uses
    frames,          \* the caller's std::deque< EncryptedFrame >
    outbox,          \* the calls made to llarp_router::SendToOrQueue
    parsed,          \* the buffers handed to HandleRoutingMessage
    crypto,          \* the calls made to llarp_crypto::xchacha20
    touched,         \* the element indices the call under study accessed
    cur,             \* buffer->cur - buffer->base of the buffer being read
    ret,             \* what the call under study returned
    pc,              \* where the call sequence under study stands
    tpc,             \* per thread: where it stands in its PathContext call
    tcall,           \* per thread: the call it makes and its arguments
    tret,            \* per thread: what its call returned
    ourLock,         \* m_OurPaths.first: the thread holding it, or 0
    transitLock      \* m_TransitPaths.first: the thread holding it, or 0

regVars == <<now, paths, transitHops, freed, m_OurPaths, m_TransitPaths, last>>
callVars ==
    <<input, this, frames, outbox, parsed, crypto, touched, cur, ret, pc>>
concVars == <<tpc, tcall, tret, ourLock, transitLock>>
vars == <<regVars, callVars, concVars>>

Threads == 1..MaxThreads

NONE == "none"

\* no thread is inside the PathContext
ConcIdle ==
    /\ tpc = [t \in Threads |-> "idle"]
    /\ tcall = [t \in Threads |-> [op |-> NONE]]
    /\ tret = [t \in Threads |-> NONE]
    /\ ourLock = 0
    /\ transitLock = 0

\* ------------------------------------------------------------ IHopHandler*
NULL == <<"nullptr", 0>>
PathPtr(p) == <<"Path", p>>
HopPtr(p) == <<"TransitHop", p>>

\* ------------------------------------------------------------------- Path
\* faulty variant: the re-link copies the previous hop's TX id
RECURSIVE Relink_FromTx(_, _)
Relink_FromTx(hops, idx) ==
    IF idx > 1
    THEN Relink_FromTx([hops EXCEPT ![idx].txID = hops[idx - 1].txID],
                       idx - 1)
    ELSE hops

\* Path::Path second loop: for(idx = numHops - 1; idx > 0; --idx)
\*   hops[idx].txID = hops[idx - 1].rxID
RECURSIVE Relink(_, _)
Relink(hops, idx) ==
    IF idx > 1
    THEN Relink([hops EXCEPT ![idx].txID = hops[idx - 1].rxID], idx - 1)
    ELSE hops

\* Path::Path for numHops >= 1. h is the llarp_path_hops (numHops and the
\* chosen routers); rand[idx] is what the two Randomize() calls of hop idx
\* draw. Indices are 1-based here, 0-based in the code.
PathCtor(h, rand) ==
    LET fresh == [idx \in 1..h.numHops |->
                    [router |-> h.hops[idx].router,
                     txID |-> rand[idx].txID,
                     rxID |-> rand[idx].rxID]]
    IN [hops |-> Relink(fresh, h.numHops)]

TXID(path) == path.hops[1].txID
RXID(path) == path.hops[1].rxID
Upstream(path) == path.hops[1].router

\* ------------------------------------------------------------- TransitHop
\* TransitHop::Expired(now): now - started > lifetime
TransitHopExpired(hop, t) == t - hop.started > hop.info.lifetime

\* TransitHopInfo::operator==
InfoEq(a, b) == a = b

\* -------------------------------------------------------- multimap helpers
\* map.second.equal_range(k): the entries under key k, in map order
EqualRange(map, k) == SelectSeq(map, LAMBDA e : e.k = k)

\* The check predicate of MapGet and MapHas is passed as the set of the
\* pointers it accepts.

\* MapGet: the first entry under k whose value passes check, else nullptr (0)
MapGet(map, k, check) ==
    LET hit == SelectSeq(EqualRange(map, k), LAMBDA e : e.v \in check)
    IN IF hit = <<>> THEN 0 ELSE Head(hit).v

\* MapHas: whether an entry under k passes check
MapHas(map, k, check) ==
    LET hit == SelectSeq(EqualRange(map, k), LAMBDA e : e.v \in check)
    IN hit # <<>>

\* MapPut: map.second.emplace(k, v)
MapPut(map, k, v) == Append(map, [k |-> k, v |-> v])

\* multimap::erase(key): removes every entry under the key
EraseKey(map, k) == SelectSeq(map, LAMBDA e : e.k # k)

\* ------------------------------------------------------------ PathContext
\* AddOwnPath(path), p being the Path*: the first MapPut, under TXID()
AddOwnPath_First(map, path, p) == MapPut(map, TXID(path), p)

\* faulty variant: the second MapPut uses TXID() again
AddOwnPath_Second_TxAgain(map, path, p) == MapPut(map, TXID(path), p)

\* AddOwnPath(path): the second MapPut, under RXID()
AddOwnPath_Second(map, path, p) == MapPut(map, RXID(path), p)

\* AddOwnPath(path) run without interruption
AddOwnPath(map, path, p) ==
    AddOwnPath_Second(AddOwnPath_First(map, path, p), path, p)

\* faulty variant: the hop is registered under its RX id only
PutTransitHop_RxOnly(map, info, p) ==
    MapPut(map, info.rxID, p)

\* PutTransitHop(hop), p being the TransitHop* and info its hop->info: the
\* first MapPut, under info.txID
PutTransitHop_First(map, info, p) == MapPut(map, info.txID, p)

\* PutTransitHop(hop): the second MapPut, under info.rxID
PutTransitHop_Second(map, info, p) == MapPut(map, info.rxID, p)

\* PutTransitHop(hop) run without interruption
PutTransitHop(map, info, p) ==
    PutTransitHop_Second(PutTransitHop_First(map, info, p), info, p)

HasTransitHop(info) ==
    MapHas(m_TransitPaths, info.txID,
           {hop \in DOMAIN transitHops :
               InfoEq(info, transitHops[hop].info)})

\* GetByUpstream: the MapGet on m_OurPaths (0 is nullptr)
GetByUpstream_Own(remote, id) ==
    MapGet(m_OurPaths, id,
           {p \in DOMAIN paths : Upstream(paths[p]) = remote})

\* GetByUpstream: the MapGet on m_TransitPaths (0 is nullptr)
GetByUpstream_Transit(remote, id) ==
    MapGet(m_TransitPaths, id,
           {p \in DOMAIN transitHops :
               transitHops[p].info.upstream = remote})

\* faulty variant: transit-paths is consulted before own-paths
GetByUpstream_TransitFirst(remote, id) ==
    LET own == GetByUpstream_Own(remote, id)
        hop == GetByUpstream_Transit(remote, id)
    IN IF hop # 0 THEN HopPtr(hop)
       ELSE IF own # 0 THEN PathPtr(own) ELSE NULL

\* GetByUpstream run without interruption
GetByUpstream(remote, id) ==
    LET own == GetByUpstream_Own(remote, id)
        hop == GetByUpstream_Transit(remote, id)
    IN IF own # 0 THEN PathPtr(own)
       ELSE IF hop # 0 THEN HopPtr(hop) ELSE NULL

\* faulty variant: own-paths is consulted first, as GetByUpstream does
GetByDownstream_OwnFirst(remote, id) ==
    LET own == MapGet(m_OurPaths, id,
                      {p \in DOMAIN paths : Upstream(paths[p]) = remote})
        hop == MapGet(m_TransitPaths, id,
                      {p \in DOMAIN transitHops :
                         transitHops[p].info.downstream = remote})
    IN IF own # 0 THEN PathPtr(own)
       ELSE IF hop # 0 THEN HopPtr(hop) ELSE NULL

GetByDownstream(remote, id) ==
    LET hop == MapGet(m_TransitPaths, id,
                      {p \in DOMAIN transitHops :
                         transitHops[p].info.downstream = remote})
    IN IF hop # 0 THEN HopPtr(hop) ELSE NULL

\* ExpirePaths, first loop: the set removePaths
RemovePaths(map, t) ==
    {map[i].v : i \in {j \in DOMAIN map :
                          TransitHopExpired(transitHops[map[j].v], t)}}

\* faulty variant: the entry under the RX id is left behind
EraseHop_TxOnly(map, p) ==
    EraseKey(map, transitHops[p].info.txID)

\* ExpirePaths, body of the second loop for one p
EraseHop(map, p) ==
    EraseKey(EraseKey(map, transitHops[p].info.txID),
             transitHops[p].info.rxID)

\* ExpirePaths, second loop over the std::set (ascending pointers)
RECURSIVE EraseAll(_, _)
EraseAll(map, ps) ==
    IF ps = {} THEN map
    ELSE LET p == CHOOSE x \in ps : \A y \in ps : x <= y
         IN EraseAll(EraseHop(map, p), ps \ {p})

\* ------------------------------------------------- sequential registry
\* PathContext::PathContext: both maps are empty
RegInit ==
    /\ now = 0
    /\ paths = <<>>
    /\ transitHops = <<>>
    /\ freed = {}
    /\ m_OurPaths = <<>>
    /\ m_TransitPaths = <<>>
    /\ last = "init"

\* no call is under study
CallIdle ==
    /\ input = NONE /\ this = NONE /\ frames = <<>> /\ outbox = <<>>
    /\ parsed = <<>> /\ crypto = <<>> /\ touched = {} /\ cur = 0
    /\ ret = NONE /\ pc = "idle"

Init == RegInit /\ CallIdle /\ ConcIdle

\* the clock advances
Tick ==
    /\ now < MaxTime
    /\ now' = now + 1
    /\ last' = "Tick"
    /\ UNCHANGED <<paths, transitHops, freed, m_OurPaths, m_TransitPaths>>
    /\ UNCHANGED <<callVars, concVars>>

\* a Path is built (one hop is all the registry reads) and registered
DoAddOwnPath ==
    /\ Len(paths) + Len(transitHops) < MaxHandlers
    /\ \E r \in Routers, tx \in PathIDs, rx \in PathIDs :
         LET path == PathCtor([numHops |-> 1, hops |-> <<[router |-> r]>>],
                              <<[txID |-> tx, rxID |-> rx]>>)
             p == Len(paths) + 1
         IN /\ paths' = Append(paths, path)
            /\ m_OurPaths' = AddOwnPath(m_OurPaths, path, p)
    /\ last' = "AddOwnPath"
    /\ UNCHANGED <<now, transitHops, freed, m_TransitPaths>>
    /\ UNCHANGED <<callVars, concVars>>

\* a TransitHop is created at the current time and registered
DoPutTransitHop ==
    /\ Len(paths) + Len(transitHops) < MaxHandlers
    /\ \E tx \in PathIDs, rx \in PathIDs, up \in Routers, down \in Routers,
          life \in Lifetimes :
         LET info == [txID |-> tx, rxID |-> rx, upstream |-> up,
                      downstream |-> down, lifetime |-> life]
             p == Len(transitHops) + 1
         IN /\ transitHops' = Append(transitHops,
                                     [info |-> info, started |-> now])
            /\ m_TransitPaths' = PutTransitHop(m_TransitPaths, info, p)
    /\ last' = "PutTransitHop"
    /\ UNCHANGED <<now, paths, freed, m_OurPaths>>
    /\ UNCHANGED <<callVars, concVars>>

\* faulty variant: the ids of the removed hops are erased from own-paths too
ExpirePaths_OwnToo ==
    LET removePaths == RemovePaths(m_TransitPaths, now)
    IN /\ m_TransitPaths' = EraseAll(m_TransitPaths, removePaths)
       /\ m_OurPaths' = EraseAll(m_OurPaths, removePaths)
       /\ freed' = freed \cup removePaths
       /\ last' = "ExpirePaths"
       /\ UNCHANGED <<now, paths, transitHops>>
       /\ UNCHANGED <<callVars, concVars>>

\* PathContext::ExpirePaths()
ExpirePaths ==
    LET removePaths == RemovePaths(m_TransitPaths, now)
    IN /\ m_TransitPaths' = EraseAll(m_TransitPaths, removePaths)
       /\ freed' = freed \cup removePaths
       /\ last' = "ExpirePaths"
       /\ UNCHANGED <<now, paths, transitHops, m_OurPaths>>
       /\ UNCHANGED <<callVars, concVars>>

Next == Tick \/ DoAddOwnPath \/ DoPutTransitHop \/ ExpirePaths

Spec == Init /\ [][Next]_vars

\* --------------------------------------------------- registry vocabulary
\* the TransitHop* p has an entry under key k
StoredUnder(p, k) ==
    \E i \in DOMAIN m_TransitPaths :
        m_TransitPaths[i].k = k /\ m_TransitPaths[i].v = p

\* the Path* p has an entry under key k
OwnStoredUnder(p, k) ==
    \E i \in DOMAIN m_OurPaths :
        m_OurPaths[i].k = k /\ m_OurPaths[i].v = p

Stored(p) == \E k \in PathIDs : StoredUnder(p, k)

ExpiredNow(p) == TransitHopExpired(transitHops[p], now)

\* -------------------------------------------------------------------- C1
\* C1: once ExpirePaths() has returned, no TransitHop whose age exceeds its
\* lifetime has an entry in transit-paths under any key, none is returned by
\* GetByUpstream or GetByDownstream for any router and id, and
\* HasTransitHop of its info is true only on account of a hop that is not
\* expired.
C1_NoExpiredAfterSweep ==
    last = "ExpirePaths" =>
        \A p \in DOMAIN transitHops :
            ExpiredNow(p) =>
                /\ ~Stored(p)
                /\ HasTransitHop(transitHops[p].info) =>
                      \E q \in DOMAIN transitHops :
                          /\ ~ExpiredNow(q)
                          /\ StoredUnder(q, transitHops[p].info.txID)
                          /\ InfoEq(transitHops[p].info, transitHops[q].info)
                /\ \A R \in Routers, id \in PathIDs :
                      /\ GetByUpstream(R, id) # HopPtr(p)
                      /\ GetByDownstream(R, id) # HopPtr(p)

\* a sweep has just deleted an expired hop that had distinct TX and RX ids
\* while another hop is still registered
C1_Witness ==
    /\ last = "ExpirePaths"
    /\ \E p \in freed, q \in DOMAIN transitHops :
          /\ ExpiredNow(p)
          /\ transitHops[p].info.txID # transitHops[p].info.rxID
          /\ q # p /\ Stored(q)

\* -------------------------------------------------------------------- C2
\* C2: ExpirePaths() removes only expired entries: every entry of
\* transit-paths whose hop is not expired at the time of the sweep is still
\* an entry after the sweep.
C2_SweepRemovesOnlyExpired ==
    [][last' = "ExpirePaths" =>
         \A i \in DOMAIN m_TransitPaths :
             ~ExpiredNow(m_TransitPaths[i].v) =>
                 \E j \in DOMAIN m_TransitPaths' :
                     m_TransitPaths'[j] = m_TransitPaths[i]]_vars

\* -------------------------------------------------------------------- C3
\* C3: GetByUpstream(R, id) returns an own Path stored under id with
\* hop[0].router = R whenever there is one, whatever transit-paths holds
\* under id; it returns a TransitHop only when there is none.
OwnMatches(R, id) ==
    {p \in DOMAIN paths : OwnStoredUnder(p, id) /\ Upstream(paths[p]) = R}

C3_OwnPathsFirst ==
    \A R \in Routers, id \in PathIDs :
        /\ OwnMatches(R, id) # {} =>
              \E p \in OwnMatches(R, id) : GetByUpstream(R, id) = PathPtr(p)
        /\ GetByUpstream(R, id)[1] = "TransitHop" => OwnMatches(R, id) = {}

\* an own Path and a TransitHop are stored under one id with one upstream
C3_Witness ==
    \E R \in Routers, id \in PathIDs, q \in DOMAIN transitHops :
        /\ OwnMatches(R, id) # {}
        /\ StoredUnder(q, id)
        /\ transitHops[q].info.upstream = R

\* -------------------------------------------------------------------- C4
\* C4: GetByDownstream(R, id) returns nullptr or a TransitHop stored in
\* transit-paths under id whose info.downstream is R; never a Path.
C4_DownstreamTransitOnly ==
    \A R \in Routers, id \in PathIDs :
        \/ GetByDownstream(R, id) = NULL
        \/ \E p \in DOMAIN transitHops :
              /\ GetByDownstream(R, id) = HopPtr(p)
              /\ StoredUnder(p, id)
              /\ transitHops[p].info.downstream = R

\* an own Path with upstream R is stored under id, and so is a TransitHop
\* with downstream R, which is what GetByDownstream returns
C4_Witness ==
    \E R \in Routers, id \in PathIDs :
        /\ OwnMatches(R, id) # {}
        /\ GetByDownstream(R, id)[1] = "TransitHop"

\* -------------------------------------------------------------------- C5
\* C5: HasTransitHop(info) is true right after PutTransitHop(hop) with
\* hop.info = info, and false right after an ExpirePaths() sweep that ran
\* when that hop's age exceeded its lifetime, provided no hop with equal
\* info was registered after it.
C5_HasAfterPutNotAfterReap ==
    /\ last = "PutTransitHop" =>
          HasTransitHop(transitHops[Len(transitHops)].info)
    /\ last = "ExpirePaths" =>
          \A p \in DOMAIN transitHops :
              (/\ ExpiredNow(p)
               /\ \A q \in DOMAIN transitHops :
                     q > p => ~InfoEq(transitHops[q].info, transitHops[p].info))
              => ~HasTransitHop(transitHops[p].info)

\* a hop was put, expired and has just been reaped
C5_Witness ==
    /\ last = "ExpirePaths"
    /\ \E p \in freed :
          ExpiredNow(p) /\ ~HasTransitHop(transitHops[p].info)

\* ======================================================= Path construction
SeqsUpTo(S, n) == UNION {[1..k -> S] : k \in 0..n}

\* a hop list of 1..MaxNumHops routers and the ids Randomize() will draw
InitPath ==
    /\ RegInit
    /\ \E n \in 1..MaxNumHops :
         input \in [h : [numHops : {n}, hops : [1..n -> [router : Routers]]],
                    rand : [1..n -> [txID : PathIDs, rxID : PathIDs]]]
    /\ this = NONE /\ frames = <<>> /\ outbox = <<>> /\ parsed = <<>>
    /\ crypto = <<>> /\ touched = {} /\ cur = 0 /\ ret = NONE /\ pc = "call"
    /\ ConcIdle

\* new Path(h)
Construct ==
    /\ pc = "call"
    /\ this' = PathCtor(input.h, input.rand)
    /\ pc' = "done"
    /\ UNCHANGED <<input, frames, outbox, parsed, crypto, touched, cur, ret>>
    /\ UNCHANGED <<regVars, concVars>>

NextPath == Construct

SpecPath == InitPath /\ [][NextPath]_vars

\* -------------------------------------------------------------------- C6
\* C6: after Path::Path on a hop list of length n >= 1, hop[i].txID equals
\* hop[i-1].rxID for every later hop, hop[0].txID and every rxID are the
\* values Randomize() drew, and TXID()/RXID() are hop[0]'s.
C6_HopChain ==
    pc = "done" =>
        LET n == input.h.numHops
        IN /\ Len(this.hops) = n
           /\ \A i \in 2..n : this.hops[i].txID = this.hops[i - 1].rxID
           /\ this.hops[1].txID = input.rand[1].txID
           /\ \A i \in 1..n : this.hops[i].rxID = input.rand[i].rxID
           /\ TXID(this) = input.rand[1].txID
           /\ RXID(this) = input.rand[1].rxID

\* a Path of three hops was built whose re-link changed both later TX ids
C6_Witness ==
    /\ pc = "done"
    /\ input.h.numHops = 3
    /\ \A i \in 2..3 : input.rand[i].txID # input.rand[i - 1].rxID
    /\ input.rand[1].txID # input.rand[1].rxID

\* ============================================== layered stream transform
\* bitwise exclusive or of two naturals
RECURSIVE Xor(_, _)
Xor(a, b) ==
    IF a = 0 THEN b
    ELSE IF b = 0 THEN a
    ELSE ((a + b) % 2) + 2 * Xor(a \div 2, b \div 2)

\* the key stream byte at position i under a key and a nonce
KeyStream(key, nonce, i) == (key * i + nonce + key) % 4

\* llarp_crypto::xchacha20(buf, key, nonce): the buffer xored, in place,
\* with the key stream
xchacha20(buf, key, nonce) ==
    [i \in DOMAIN buf |-> Xor(buf[i], KeyStream(key, nonce, i))]

\* the key exchange of the build leaves one shared secret in every hop
WithShared(p, keys) ==
    [hops |-> [i \in DOMAIN p.hops |->
                 [router |-> p.hops[i].router, txID |-> p.hops[i].txID,
                  rxID |-> p.hops[i].rxID, shared |-> keys[i]]]]

\* HandleUpstream: for(const auto& hop : hops) xchacha20(buf, hop.shared, Y)
RECURSIVE UpstreamTransform(_, _, _)
UpstreamTransform(buf, hops, Y) ==
    IF hops = <<>> THEN buf
    ELSE UpstreamTransform(xchacha20(buf, Head(hops).shared, Y),
                           Tail(hops), Y)

\* HandleUpstream: the xchacha20 calls its loop adds to those made before
RECURSIVE UpstreamCalls(_, _, _)
UpstreamCalls(calls, hops, Y) ==
    IF hops = <<>> THEN calls
    ELSE UpstreamCalls(Append(calls, [key |-> Head(hops).shared, nonce |-> Y]),
                       Tail(hops), Y)

\* faulty variant: the message carries the path's RX id
HandleUpstream_RxPathId(p, buf, Y) ==
    [to |-> Upstream(p),
     msg |-> [type |-> "RelayUpstream",
              X |-> UpstreamTransform(buf, p.hops, Y),
              Y |-> Y,
              pathid |-> RXID(p)]]

\* HandleUpstream: the RelayUpstreamMessage and the router it is sent to
HandleUpstream(p, buf, Y) ==
    [to |-> Upstream(p),
     msg |-> [type |-> "RelayUpstream",
              X |-> UpstreamTransform(buf, p.hops, Y),
              Y |-> Y,
              pathid |-> TXID(p)]]

\* faulty variant: the loop leaves out the first hop
RECURSIVE DownstreamTransform_SkipFirst(_, _, _)
DownstreamTransform_SkipFirst(buf, hops, Y) ==
    UpstreamTransform(buf, Tail(hops), Y)

\* HandleDownstream: for(const auto& hop : hops) xchacha20(buf, hop.shared, Y)
RECURSIVE DownstreamTransform(_, _, _)
DownstreamTransform(buf, hops, Y) ==
    IF hops = <<>> THEN buf
    ELSE DownstreamTransform(xchacha20(buf, Head(hops).shared, Y),
                             Tail(hops), Y)

\* HandleDownstream: the xchacha20 calls its loop adds to those made before
RECURSIVE DownstreamCalls(_, _, _)
DownstreamCalls(calls, hops, Y) ==
    IF hops = <<>> THEN calls
    ELSE DownstreamCalls(Append(calls,
                                [key |-> Head(hops).shared, nonce |-> Y]),
                         Tail(hops), Y)

\* a Path with established shared secrets, a payload and a nonce
InitCrypto ==
    /\ RegInit
    /\ \E n \in 1..MaxNumHops : \E keys \in [1..n -> Secrets] :
         this = WithShared(
                    PathCtor([numHops |-> n,
                              hops |-> [i \in 1..n |-> [router |-> "r1"]]],
                             [i \in 1..n |-> [txID |-> 1, rxID |-> 2]]),
                    keys)
    /\ input \in [buf : SeqsUpTo(Bytes, MaxLen), Y : Nonces]
    /\ frames = <<>> /\ outbox = <<>> /\ parsed = <<>> /\ crypto = <<>>
    /\ touched = {} /\ cur = 0 /\ ret = NONE /\ pc = "call"
    /\ ConcIdle

\* Path::HandleUpstream(buf, Y, r); SendToOrQueue accepts or rejects
DoHandleUpstream ==
    /\ pc = "call"
    /\ \E ok \in BOOLEAN :
         /\ outbox' = Append(outbox,
                [call |-> HandleUpstream(this, input.buf, input.Y), ok |-> ok])
         /\ ret' = ok
    /\ crypto' = UpstreamCalls(crypto, this.hops, input.Y)
    /\ pc' = "sent"
    /\ UNCHANGED <<input, this, frames, parsed, touched, cur>>
    /\ UNCHANGED <<regVars, concVars>>

\* Path::HandleDownstream(buf, Y, r) on the buffer and nonce of the message
\* HandleUpstream sent; the parser accepts or rejects the plaintext
DoHandleDownstream ==
    /\ pc = "sent"
    /\ LET m == outbox[Len(outbox)].call.msg
       IN /\ parsed' = Append(parsed,
                               DownstreamTransform(m.X, this.hops, m.Y))
          /\ crypto' = DownstreamCalls(crypto, this.hops, m.Y)
    /\ \E ok \in BOOLEAN : ret' = ok
    /\ pc' = "received"
    /\ UNCHANGED <<input, this, frames, outbox, touched, cur>>
    /\ UNCHANGED <<regVars, concVars>>

NextCrypto == DoHandleUpstream \/ DoHandleDownstream

SpecCrypto == InitCrypto /\ [][NextCrypto]_vars

\* -------------------------------------------------------------------- C7
\* C7: the buffer HandleUpstream puts in the relay-upstream message, passed
\* with the same nonce through HandleDownstream's transform loop, is the
\* original payload when it reaches the routing-message parser.
C7_RoundTrip ==
    pc = "received" => parsed[Len(parsed)] = input.buf

\* a round trip over at least two hops whose ciphertext differed from the
\* payload
C7_Witness ==
    /\ pc = "received"
    /\ Len(this.hops) >= 2
    /\ this.hops[1].shared # this.hops[2].shared
    /\ Len(input.buf) = MaxLen
    /\ outbox[1].call.msg.X # input.buf

\* ------------------------------------------------------------------- C12
\* C12: when HandleUpstream(buf, Y) on a Path of n hops has returned, the
\* transform was applied exactly once per hop, in the order hop[0] .. hop[n-1],
\* each call keyed by that hop's shared secret and all with the nonce Y;
\* exactly one send was made, addressed to hop[0].router, of a relay-upstream
\* message carrying the layered buffer, the nonce Y and the path id
\* hop[0].txID; and the call returned false iff the transport rejected it.
RECURSIVE Layered(_, _, _)
Layered(buf, n, Y) ==
    IF n = 0 THEN buf
    ELSE xchacha20(Layered(buf, n - 1, Y), this.hops[n].shared, Y)

C12_HandleUpstream ==
    pc = "sent" =>
        LET n == Len(this.hops)
        IN /\ crypto = [i \in 1..n |->
                           [key |-> this.hops[i].shared, nonce |-> input.Y]]
           /\ Len(outbox) = 1
           /\ outbox[1].call.to = this.hops[1].router
           /\ outbox[1].call.msg =
                 [type |-> "RelayUpstream", X |-> Layered(input.buf, n, input.Y),
                  Y |-> input.Y, pathid |-> this.hops[1].txID]
           /\ (ret = FALSE) <=> (outbox[1].ok = FALSE)

\* HandleUpstream on three hops with different secrets and a full payload,
\* the transport having rejected the send
C12_Witness ==
    /\ pc = "sent"
    /\ Len(this.hops) = 3
    /\ this.hops[1].shared # this.hops[2].shared
    /\ Len(input.buf) = MaxLen
    /\ ret = FALSE
    /\ outbox[1].call.msg.X # input.buf

\* ============================================================ ForwardLRCM
\* faulty variant: the frames are taken from the back of the queue
RECURSIVE Drain_FromBack(_, _)
Drain_FromBack(msgFrames, q) ==
    IF Len(q) # 0
    THEN Drain_FromBack(Append(msgFrames, q[Len(q)]), SubSeq(q, 1, Len(q) - 1))
    ELSE [msgFrames |-> msgFrames, q |-> q]

\* ForwardLRCM: while(frames.size()) { msg->frames.push_back(frames.front());
\* frames.pop_front(); }
RECURSIVE Drain(_, _)
Drain(msgFrames, q) ==
    IF Len(q) # 0
    THEN Drain(Append(msgFrames, Head(q)), Tail(q))
    ELSE [msgFrames |-> msgFrames, q |-> q]

\* ForwardLRCM(nextHop, frames): the LR_CommitMessage handed to
\* SendToOrQueue, the router it is addressed to, and the queue left behind
ForwardLRCM(nextHop, q) ==
    LET d == Drain(<<>>, q)
    IN [to |-> nextHop,
        msg |-> [type |-> "LR_Commit", frames |-> d.msgFrames],
        q |-> d.q]

\* a next hop and a queue of 0..MaxFrames frames
InitLRCM ==
    /\ RegInit
    /\ input \in [nextHop : Routers, frames : SeqsUpTo(Frames, MaxFrames)]
    /\ frames = input.frames
    /\ this = NONE /\ outbox = <<>> /\ parsed = <<>> /\ crypto = <<>>
    /\ touched = {} /\ cur = 0 /\ ret = NONE /\ pc = "call"
    /\ ConcIdle

\* PathContext::ForwardLRCM(nextHop, frames); SendToOrQueue accepts or rejects
DoForwardLRCM ==
    /\ pc = "call"
    /\ \E ok \in BOOLEAN :
         LET f == ForwardLRCM(input.nextHop, frames)
         IN /\ outbox' = Append(outbox,
                    [call |-> [to |-> f.to, msg |-> f.msg], ok |-> ok])
            /\ frames' = f.q
            /\ ret' = ok
    /\ pc' = "done"
    /\ UNCHANGED <<input, this, parsed, crypto, touched, cur>>
    /\ UNCHANGED <<regVars, concVars>>

NextLRCM == DoForwardLRCM

SpecLRCM == InitLRCM /\ [][NextLRCM]_vars

\* ------------------------------------------------------------------- C10
\* C10: ForwardLRCM on a queue of k >= 0 frames makes exactly one
\* SendToOrQueue call, addressed to nextHop, whose message carries exactly
\* those k frames in queue order; the queue is empty on return whether or
\* not the send succeeded, and the transport's boolean is returned.
C10_ForwardLRCM ==
    pc = "done" =>
        /\ Len(outbox) = 1
        /\ outbox[1].call.to = input.nextHop
        /\ outbox[1].call.msg.frames = input.frames
        /\ frames = <<>>
        /\ ret = outbox[1].ok

\* a queue of three different frames was forwarded and the transport
\* rejected the send
C10_Witness ==
    /\ pc = "done"
    /\ Len(input.frames) = 3
    /\ Cardinality({input.frames[i] : i \in 1..3}) = 3
    /\ ret = FALSE
    /\ frames = <<>>

\* ================================================== concurrent registry
\* Threads call into one PathContext. A step is one critical section of
\* MapPut / MapGet / MapHas / ExpirePaths: taking the std::unique_lock is one
\* step, the work under it together with the unlock at scope exit the next.
ConcIDs == 1..(2 * MaxThreads)

\* the Path thread t hands to AddOwnPath: ids no other Path has
ThreadPath(t) ==
    PathCtor([numHops |-> 1, hops |-> <<[router |-> "r1"]>>],
             <<[txID |-> 2 * t - 1, rxID |-> 2 * t]>>)

\* the hop->info of the TransitHop thread t hands to PutTransitHop: ids no
\* other TransitHop has (they are ids of own Paths, too)
ThreadHopInfo(t) ==
    [txID |-> 2 * t, rxID |-> ((2 * t) % (2 * MaxThreads)) + 1,
     upstream |-> "r1", downstream |-> "r2", lifetime |-> 1]

InitConc ==
    /\ now = 0
    /\ paths = [t \in Threads |-> ThreadPath(t)]
    /\ transitHops = [t \in Threads |->
                        [info |-> ThreadHopInfo(t), started |-> 0]]
    /\ freed = {}
    /\ m_OurPaths = <<>>
    /\ m_TransitPaths = <<>>
    /\ last = "init"
    /\ CallIdle
    /\ ConcIdle

Goto(t, l) == tpc' = [tpc EXCEPT ![t] = l]
Return(t, v) == /\ tpc' = [tpc EXCEPT ![t] = "done"]
                /\ tret' = [tret EXCEPT ![t] = v]

\* llarp_time_now_ms() advances
TickConc ==
    /\ now < MaxTime
    /\ now' = now + 1
    /\ UNCHANGED <<paths, transitHops, freed, m_OurPaths, m_TransitPaths,
                   last, callVars, concVars>>

\* ---- AddOwnPath(path): MapPut(TXID), then MapPut(RXID)
AddOwnPath_LockTx(t) ==
    /\ tpc[t] = "idle" /\ ourLock = 0
    /\ ourLock' = t
    /\ tcall' = [tcall EXCEPT ![t] = [op |-> "AddOwnPath", p |-> t]]
    /\ Goto(t, "AddOwnPath:tx")
    /\ UNCHANGED <<regVars, callVars, tret, transitLock>>

AddOwnPath_PutTx(t) ==
    /\ tpc[t] = "AddOwnPath:tx" /\ ourLock = t
    /\ m_OurPaths' = AddOwnPath_First(m_OurPaths, paths[tcall[t].p],
                                      tcall[t].p)
    /\ ourLock' = 0
    /\ Goto(t, "AddOwnPath:mid")
    /\ UNCHANGED <<now, paths, transitHops, freed, m_TransitPaths, last,
                   callVars, tcall, tret, transitLock>>

AddOwnPath_LockRx(t) ==
    /\ tpc[t] = "AddOwnPath:mid" /\ ourLock = 0
    /\ ourLock' = t
    /\ Goto(t, "AddOwnPath:rx")
    /\ UNCHANGED <<regVars, callVars, tcall, tret, transitLock>>

AddOwnPath_PutRx(t) ==
    /\ tpc[t] = "AddOwnPath:rx" /\ ourLock = t
    /\ m_OurPaths' = AddOwnPath_Second(m_OurPaths, paths[tcall[t].p],
                                       tcall[t].p)
    /\ ourLock' = 0
    /\ Return(t, NONE)
    /\ UNCHANGED <<now, paths, transitHops, freed, m_TransitPaths, last,
                   callVars, tcall, transitLock>>

\* ---- PutTransitHop(hop): MapPut(info.txID), then MapPut(info.rxID); the
\* hop was created when the call is made
PutTransitHop_LockTx(t) ==
    /\ tpc[t] = "idle" /\ transitLock = 0
    /\ transitLock' = t
    /\ transitHops' = [transitHops EXCEPT ![t].started = now]
    /\ tcall' = [tcall EXCEPT ![t] = [op |-> "PutTransitHop", p |-> t]]
    /\ Goto(t, "PutTransitHop:tx")
    /\ UNCHANGED <<now, paths, freed, m_OurPaths, m_TransitPaths, last,
                   callVars, tret, ourLock>>

PutTransitHop_PutTx(t) ==
    /\ tpc[t] = "PutTransitHop:tx" /\ transitLock = t
    /\ m_TransitPaths' = PutTransitHop_First(m_TransitPaths,
                             transitHops[tcall[t].p].info, tcall[t].p)
    /\ transitLock' = 0
    /\ Goto(t, "PutTransitHop:mid")
    /\ UNCHANGED <<now, paths, transitHops, freed, m_OurPaths, last,
                   callVars, tcall, tret, ourLock>>

PutTransitHop_LockRx(t) ==
    /\ tpc[t] = "PutTransitHop:mid" /\ transitLock = 0
    /\ transitLock' = t
    /\ Goto(t, "PutTransitHop:rx")
    /\ UNCHANGED <<regVars, callVars, tcall, tret, ourLock>>

PutTransitHop_PutRx(t) ==
    /\ tpc[t] = "PutTransitHop:rx" /\ transitLock = t
    /\ m_TransitPaths' = PutTransitHop_Second(m_TransitPaths,
                             transitHops[tcall[t].p].info, tcall[t].p)
    /\ transitLock' = 0
    /\ Return(t, NONE)
    /\ UNCHANGED <<now, paths, transitHops, freed, m_OurPaths, last,
                   callVars, tcall, ourLock>>

\* ---- scans of m_TransitPaths that meet a deleted TransitHop
\* an entry under k points to a TransitHop that was deleted
DanglingUnder(k) ==
    \E i \in DOMAIN m_TransitPaths :
        m_TransitPaths[i].k = k /\ m_TransitPaths[i].v \in freed

\* what MapGet on m_TransitPaths may return: reading a deleted hop in the
\* check is undefined, so any pointer or nullptr may come back
TransitGet(k, check) ==
    IF DanglingUnder(k) THEN {0} \cup DOMAIN transitHops
    ELSE {MapGet(m_TransitPaths, k, check)}

\* what MapHas on m_TransitPaths may return
TransitHas(k, check) ==
    IF DanglingUnder(k) THEN BOOLEAN
    ELSE {MapHas(m_TransitPaths, k, check)}

\* ---- GetByUpstream(remote, id): MapGet on own-paths, then on transit-paths
GetByUpstream_LockOwn(t) ==
    /\ tpc[t] = "idle" /\ ourLock = 0
    /\ ourLock' = t
    /\ \E remote \in Routers, id \in ConcIDs :
         tcall' = [tcall EXCEPT ![t] = [op |-> "GetByUpstream",
                                        remote |-> remote, id |-> id]]
    /\ Goto(t, "GetByUpstream:own")
    /\ UNCHANGED <<regVars, callVars, tret, transitLock>>

\* faulty variant: the lock on own-paths is kept when the scan finds nothing
GetByUpstream_ScanOwn_KeepLock(t) ==
    /\ tpc[t] = "GetByUpstream:own" /\ ourLock = t
    /\ LET own == GetByUpstream_Own(tcall[t].remote, tcall[t].id)
       IN IF own # 0
          THEN Return(t, PathPtr(own)) /\ ourLock' = 0
          ELSE Goto(t, "GetByUpstream:mid") /\ UNCHANGED <<tret, ourLock>>
    /\ UNCHANGED <<regVars, callVars, tcall, transitLock>>

GetByUpstream_ScanOwn(t) ==
    /\ tpc[t] = "GetByUpstream:own" /\ ourLock = t
    /\ ourLock' = 0
    /\ LET own == GetByUpstream_Own(tcall[t].remote, tcall[t].id)
       IN IF own # 0
          THEN Return(t, PathPtr(own))
          ELSE Goto(t, "GetByUpstream:mid") /\ UNCHANGED tret
    /\ UNCHANGED <<regVars, callVars, tcall, transitLock>>

GetByUpstream_LockTransit(t) ==
    /\ tpc[t] = "GetByUpstream:mid" /\ transitLock = 0
    /\ transitLock' = t
    /\ Goto(t, "GetByUpstream:transit")
    /\ UNCHANGED <<regVars, callVars, tcall, tret, ourLock>>

GetByUpstream_ScanTransit(t) ==
    /\ tpc[t] = "GetByUpstream:transit" /\ transitLock = t
    /\ transitLock' = 0
    /\ \E hop \in TransitGet(tcall[t].id,
                    {p \in DOMAIN transitHops :
                        transitHops[p].info.upstream = tcall[t].remote}) :
         Return(t, IF hop # 0 THEN HopPtr(hop) ELSE NULL)
    /\ UNCHANGED <<regVars, callVars, tcall, ourLock>>

\* ---- GetByDownstream(remote, id): MapGet on transit-paths
GetByDownstream_Lock(t) ==
    /\ tpc[t] = "idle" /\ transitLock = 0
    /\ transitLock' = t
    /\ \E remote \in Routers, id \in ConcIDs :
         tcall' = [tcall EXCEPT ![t] = [op |-> "GetByDownstream",
                                        remote |-> remote, id |-> id]]
    /\ Goto(t, "GetByDownstream:scan")
    /\ UNCHANGED <<regVars, callVars, tret, ourLock>>

GetByDownstream_Scan(t) ==
    /\ tpc[t] = "GetByDownstream:scan" /\ transitLock = t
    /\ transitLock' = 0
    /\ \E hop \in TransitGet(tcall[t].id,
                    {p \in DOMAIN transitHops :
                        transitHops[p].info.downstream = tcall[t].remote}) :
         Return(t, IF hop # 0 THEN HopPtr(hop) ELSE NULL)
    /\ UNCHANGED <<regVars, callVars, tcall, ourLock>>

\* ---- HasTransitHop(info): MapHas on transit-paths
HasTransitHop_Lock(t) ==
    /\ tpc[t] = "idle" /\ transitLock = 0
    /\ transitLock' = t
    /\ \E u \in Threads :
         tcall' = [tcall EXCEPT ![t] = [op |-> "HasTransitHop",
                                        info |-> ThreadHopInfo(u)]]
    /\ Goto(t, "HasTransitHop:scan")
    /\ UNCHANGED <<regVars, callVars, tret, ourLock>>

HasTransitHop_Scan(t) ==
    /\ tpc[t] = "HasTransitHop:scan" /\ transitLock = t
    /\ transitLock' = 0
    /\ \E has \in TransitHas(tcall[t].info.txID,
                    {hop \in DOMAIN transitHops :
                        InfoEq(tcall[t].info, transitHops[hop].info)}) :
         Return(t, has)
    /\ UNCHANGED <<regVars, callVars, tcall, ourLock>>

\* ---- ExpirePaths(): the whole sweep under one lock
ExpirePaths_Lock(t) ==
    /\ tpc[t] = "idle" /\ transitLock = 0
    /\ transitLock' = t
    /\ tcall' = [tcall EXCEPT ![t] = [op |-> "ExpirePaths"]]
    /\ Goto(t, "ExpirePaths:sweep")
    /\ UNCHANGED <<regVars, callVars, tret, ourLock>>

\* the entries whose TransitHop has not been deleted
LiveEntries(map) == SelectSeq(map, LAMBDA e : e.v \notin freed)

\* the deleted TransitHops that still have an entry
Dangling(map) == {map[i].v : i \in {j \in DOMAIN map : map[j].v \in freed}}

RECURSIVE EraseKeys(_, _)
EraseKeys(map, ks) ==
    IF ks = {} THEN map
    ELSE LET k == CHOOSE x \in ks : TRUE
         IN EraseKeys(EraseKey(map, k), ks \ {k})

\* Expired(now) of a deleted hop is undefined: any of them may be collected
\* again, and then the keys read from it are arbitrary and it is deleted twice
ExpirePaths_Sweep(t) ==
    /\ tpc[t] = "ExpirePaths:sweep" /\ transitLock = t
    /\ transitLock' = 0
    /\ LET removePaths == RemovePaths(LiveEntries(m_TransitPaths), now)
           swept == EraseAll(m_TransitPaths, removePaths)
       IN \E again \in SUBSET Dangling(m_TransitPaths) :
            /\ freed' = freed \cup removePaths
            /\ IF again = {}
               THEN m_TransitPaths' = swept
               ELSE \E ks \in SUBSET ConcIDs :
                       m_TransitPaths' = EraseKeys(swept, ks)
    /\ Return(t, NONE)
    /\ UNCHANGED <<now, paths, transitHops, m_OurPaths, last, callVars,
                   tcall, ourLock>>

NextConc ==
    \/ TickConc
    \/ \E t \in Threads :
         \/ AddOwnPath_LockTx(t) \/ AddOwnPath_PutTx(t)
         \/ AddOwnPath_LockRx(t) \/ AddOwnPath_PutRx(t)
         \/ PutTransitHop_LockTx(t) \/ PutTransitHop_PutTx(t)
         \/ PutTransitHop_LockRx(t) \/ PutTransitHop_PutRx(t)
         \/ GetByUpstream_LockOwn(t) \/ GetByUpstream_ScanOwn(t)
         \/ GetByUpstream_LockTransit(t) \/ GetByUpstream_ScanTransit(t)
         \/ GetByDownstream_Lock(t) \/ GetByDownstream_Scan(t)
         \/ HasTransitHop_Lock(t) \/ HasTransitHop_Scan(t)
         \/ ExpirePaths_Lock(t) \/ ExpirePaths_Sweep(t)

SpecConc == InitConc /\ [][NextConc]_vars

\* the call thread t makes or made, "none" before it makes one
Op(t) == tcall[t].op

\* -------------------------------------------------------------------- C8
\* C8: once every AddOwnPath call of threads adding Paths with pairwise
\* distinct ids has returned, GetByUpstream(path.Upstream(), path.TXID())
\* and GetByUpstream(path.Upstream(), path.RXID()) return exactly that Path
\* for each of them, own-paths holds exactly one entry per (id, path) pair
\* and nothing else, and no lookup returns a Path under an id or router that
\* is not its own.
Added == {t \in Threads : Op(t) = "AddOwnPath" /\ tpc[t] = "done"}

C8_ConcurrentAddOwnPath ==
    (\A t \in Threads : Op(t) = "AddOwnPath" => tpc[t] = "done") =>
        /\ \A t \in Added :
             LET p == tcall[t].p
                 txe == [k |-> TXID(paths[p]), v |-> p]
                 rxe == [k |-> RXID(paths[p]), v |-> p]
             IN /\ GetByUpstream(Upstream(paths[p]), TXID(paths[p]))
                      = PathPtr(p)
                /\ GetByUpstream(Upstream(paths[p]), RXID(paths[p]))
                      = PathPtr(p)
                /\ Cardinality({i \in DOMAIN m_OurPaths :
                                   m_OurPaths[i] = txe}) = 1
                /\ Cardinality({i \in DOMAIN m_OurPaths :
                                   m_OurPaths[i] = rxe}) = 1
        /\ Len(m_OurPaths) = 2 * Cardinality(Added)
        /\ \A R \in Routers, id \in ConcIDs :
             LET r == GetByUpstream_Own(R, id)
             IN r # 0 =>
                  /\ r \in {tcall[t].p : t \in Added}
                  /\ id \in {TXID(paths[r]), RXID(paths[r])}
                  /\ R = Upstream(paths[r])

\* every thread added a Path, and their MapPut calls interleaved
C8_Witness ==
    /\ \A t \in Threads : Op(t) = "AddOwnPath" /\ tpc[t] = "done"
    /\ m_OurPaths[1].v # m_OurPaths[2].v

\* -------------------------------------------------------------------- C9
\* C9: every registry operation is atomic with respect to the others on its
\* map: no lookup and no ExpirePaths, when it scans a map under its lock,
\* finds a Path or TransitHop whose registration is under way and that is
\* stored under its TX id but not yet under its RX id.
HalfOwn ==
    {p \in DOMAIN paths :
        /\ OwnStoredUnder(p, TXID(paths[p]))
        /\ ~OwnStoredUnder(p, RXID(paths[p]))
        /\ \E u \in Threads : /\ Op(u) = "AddOwnPath" /\ tcall[u].p = p
                              /\ tpc[u] # "done"}

HalfTransit ==
    {p \in DOMAIN transitHops :
        /\ StoredUnder(p, transitHops[p].info.txID)
        /\ ~StoredUnder(p, transitHops[p].info.rxID)
        /\ \E u \in Threads : /\ Op(u) = "PutTransitHop" /\ tcall[u].p = p
                              /\ tpc[u] # "done"}

C9_RegistrationAtomic ==
    \A t \in Threads :
        /\ tpc[t] = "GetByUpstream:own" => HalfOwn = {}
        /\ tpc[t] \in {"GetByUpstream:transit", "GetByDownstream:scan",
                       "HasTransitHop:scan", "ExpirePaths:sweep"}
             => HalfTransit = {}

\* ============================================================ Path expiry
TimeValues == 0..7          \* llarp_time_t values (three bits wide here)

\* a - b in the unsigned arithmetic of llarp_time_t
TimeSub(a, b) == (a - b) % Cardinality(TimeValues)

\* Path::Expired(now)
Expired(path, t) == TimeSub(t, path.buildStarted) > path.hops[1].lifetime

\* Path::Path(h) writes router, txID and rxID of every hop and nothing else:
\* buildStarted and the hops' lifetime keep what their storage held, bs and
\* life[idx]
Unwritten(p, bs, life) ==
    [hops |-> [i \in DOMAIN p.hops |->
                 [router |-> p.hops[i].router, txID |-> p.hops[i].txID,
                  rxID |-> p.hops[i].rxID, lifetime |-> life[i]]],
     buildStarted |-> bs]

\* a hop list of 1..MaxNumHops routers and the hop lifetime L the builder
\* means the Path to have
InitExpiry ==
    /\ RegInit
    /\ \E n \in 1..MaxNumHops :
         input \in [h : {[numHops |-> n,
                          hops |-> [i \in 1..n |-> [router |-> "r1"]]]},
                    rand : {[i \in 1..n |-> [txID |-> 1, rxID |-> 2]]},
                    L : Lifetimes,
                    at : {0}]
    /\ this = NONE /\ frames = <<>> /\ outbox = <<>> /\ parsed = <<>>
    /\ crypto = <<>> /\ touched = {} /\ cur = 0 /\ ret = NONE /\ pc = "call"
    /\ ConcIdle

\* llarp_time_now_ms() advances
TickExpiry ==
    /\ now < MaxTime
    /\ now' = now + 1
    /\ UNCHANGED <<paths, transitHops, freed, m_OurPaths, m_TransitPaths,
                   last, callVars, concVars>>

\* new Path(h) at the time now, which input.at records
ConstructExpiry ==
    /\ pc = "call"
    /\ \E bs \in TimeValues,
          life \in [1..input.h.numHops -> TimeValues] :
         this' = Unwritten(PathCtor(input.h, input.rand), bs, life)
    /\ input' = [input EXCEPT !.at = now]
    /\ pc' = "built"
    /\ UNCHANGED <<frames, outbox, parsed, crypto, touched, cur, ret>>
    /\ UNCHANGED <<regVars, concVars>>

NextExpiry == TickExpiry \/ ConstructExpiry

SpecExpiry == InitExpiry /\ [][NextExpiry]_vars

\* ------------------------------------------------------------------- C11
\* C11: a Path built with hop lifetime L is not expired at its construction
\* time and is expired exactly when the clock has advanced by more than L:
\* Expired(now) is true iff now minus the construction time exceeds L.
C11_ExpiredFollowsClock ==
    pc = "built" => (Expired(this, now) <=> now - input.at > input.L)

\* ================================================ hop indices of a Path
SizeValues == 0..7          \* size_t values (three bits wide here)

\* a - b in the unsigned arithmetic of size_t
SizeSub(a, b) == (a - b) % Cardinality(SizeValues)

\* Path::Path first loop: for(idx = 0; idx < numHops; ++idx) touches hops[idx]
CopyTouched(n) == {idx \in SizeValues : idx < n}

\* Path::Path second loop entered with idx: while idx > 0 it touches
\* hops[idx] and hops[idx - 1]
RECURSIVE RelinkTouched(_)
RelinkTouched(idx) ==
    IF idx > 0 THEN {idx, idx - 1} \cup RelinkTouched(idx - 1)
    ELSE {}

\* Path::Path(h): the indices of hops it touches (0-based, as in the code);
\* the second loop starts at numHops - 1 computed in size_t
PathCtorTouched(n) == CopyTouched(n) \cup RelinkTouched(SizeSub(n, 1))

\* operator[] on a vector of n elements is defined for these indices only
InRange(n) == {idx \in SizeValues : idx < n}

\* a hop list of 0..MaxNumHops routers and the ids Randomize() will draw
InitAny ==
    /\ RegInit
    /\ \E n \in 0..MaxNumHops :
         input \in [h : [numHops : {n}, hops : [1..n -> [router : Routers]]],
                    rand : [1..n -> [txID : PathIDs, rxID : PathIDs]]]
    /\ this = NONE /\ frames = <<>> /\ outbox = <<>> /\ parsed = <<>>
    /\ crypto = <<>> /\ touched = {} /\ cur = 0 /\ ret = NONE /\ pc = "call"
    /\ ConcIdle

\* new Path(h). An access outside the vector is undefined: the process may
\* abort, or go on with the vector as the in-range accesses left it
ConstructAny ==
    /\ pc = "call"
    /\ LET n == input.h.numHops
       IN /\ touched' = PathCtorTouched(n)
          /\ IF PathCtorTouched(n) \subseteq InRange(n)
             THEN /\ this' = PathCtor(input.h, input.rand)
                  /\ pc' = "built"
             ELSE /\ this' = [hops |-> <<>>]
                  /\ pc' \in {"built", "abort"}
    /\ UNCHANGED <<input, frames, outbox, parsed, crypto, cur, ret>>
    /\ UNCHANGED <<regVars, concVars>>

\* TXID(), RXID() or Upstream() on the built Path: each reads hops[0]; on an
\* empty vector that read is undefined and yields any value or aborts
ReadFirstHop ==
    /\ pc = "built"
    /\ touched' = {0}
    /\ \E f \in {"TXID", "RXID", "Upstream"} :
         IF 0 \in InRange(Len(this.hops))
         THEN /\ ret' = CASE f = "TXID" -> TXID(this)
                          [] f = "RXID" -> RXID(this)
                          [] f = "Upstream" -> Upstream(this)
              /\ pc' = "read"
         ELSE /\ ret' \in (IF f = "Upstream" THEN Routers ELSE PathIDs)
              /\ pc' \in {"read", "abort"}
    /\ UNCHANGED <<input, this, frames, outbox, parsed, crypto, cur>>
    /\ UNCHANGED <<regVars, concVars>>

NextAny == ConstructAny \/ ReadFirstHop

SpecAny == InitAny /\ [][NextAny]_vars

\* ------------------------------------------------------------------- C13
\* C13: nothing aborts and nothing is accessed out of range: building a Path
\* from a hop list of any length n >= 0 touches only hop indices in [0, n),
\* and TXID(), RXID() and Upstream() read hop[0] only when it exists.
C13_HopAccessInRange ==
    /\ pc # "abort"
    /\ pc \in {"built", "read"} => touched \subseteq InRange(Len(this.hops))

\* ============================================ registry, later properties
\* ------------------------------------------------------------------- C14
\* C14: in every state reached by PutTransitHop and ExpirePaths calls,
\* HasTransitHop(info) is true exactly when some entry of transit-paths,
\* under whatever key, holds a hop whose info equals info; it is never false
\* while such a hop is stored and returned by GetByUpstream or
\* GetByDownstream.
C14_HasIffStored ==
    \A p \in DOMAIN transitHops :
        HasTransitHop(transitHops[p].info) <=>
            \E q \in DOMAIN transitHops :
                Stored(q) /\ InfoEq(transitHops[q].info, transitHops[p].info)

\* ------------------------------------------------------------------- C15
\* C15: every registered TransitHop is eventually removed from transit-paths
\* under every key and released exactly once. What a finite run can show of
\* it: a hop that has lost its entries under every key has been released
\* (only a sweep that finds a hop in the map releases it, so a hop removed
\* without release is never released).
C15_RemovedIsReleased ==
    \A p \in DOMAIN transitHops : ~Stored(p) => p \in freed

\* ------------------------------------------------------------------- C16
\* C16: ExpirePaths() leaves own-paths as it was, keys, entries and Paths
\* alike, and every own Path that was added is, after any number of sweeps,
\* still stored under its TX and RX ids and GetByUpstream with its upstream
\* router and either id still returns an own Path.
C16_SweepLeavesOwnPaths ==
    /\ [][last' = "ExpirePaths" =>
            /\ m_OurPaths' = m_OurPaths
            /\ paths' = paths]_vars
    /\ [](\A p \in DOMAIN paths :
            \A id \in {TXID(paths[p]), RXID(paths[p])} :
                /\ OwnStoredUnder(p, id)
                /\ GetByUpstream(Upstream(paths[p]), id)[1] = "Path")

\* at the end of the clock a sweep has just released a TransitHop that shared
\* an id with an own Path
C16_Witness ==
    /\ last = "ExpirePaths"
    /\ now = MaxTime
    /\ \E q \in freed, p \in DOMAIN paths :
          /\ TXID(paths[p]) \in {transitHops[q].info.txID,
                                 transitHops[q].info.rxID}
          /\ GetByUpstream(Upstream(paths[p]), TXID(paths[p])) = PathPtr(p)

\* ===================================================== SendRoutingMessage
\* sizeof(tmp): the scratch buffer holds as many bytes as the longest payload
ScratchSize == MaxLen

\* msg->BEncode(&buf) on an empty buffer of cap bytes. msg.enc is the
\* message's encoding and msg.fails says that the encoder gives up for a
\* reason of its own; an encoding longer than cap does not fit. cur is the
\* number of bytes written, buf.cur - buf.base
BEncode(msg, cap) ==
    [ok |-> ~msg.fails /\ Len(msg.enc) <= cap,
     cur |-> IF Len(msg.enc) <= cap THEN Len(msg.enc) ELSE cap]

\* faulty variant: the result of BEncode is not looked at
SendRoutingMessage_Unchecked(p, msg, N) ==
    LET e == BEncode(msg, ScratchSize)
        buf == SubSeq(msg.enc, 1, e.cur)
    IN [encoded |-> TRUE, call |-> HandleUpstream(p, buf, N)]

\* Path::SendRoutingMessage(msg, r), N being what N.Randomize() draws:
\* whether it got past BEncode and, if so, what HandleUpstream(buf, N, r)
\* sends, buf being rewound to the bytes written
SendRoutingMessage(p, msg, N) ==
    LET e == BEncode(msg, ScratchSize)
        buf == SubSeq(msg.enc, 1, e.cur)
    IN IF ~e.ok
       THEN [encoded |-> FALSE, call |-> NONE]
       ELSE [encoded |-> TRUE, call |-> HandleUpstream(p, buf, N)]

\* a Path with established shared secrets and a routing message
InitSend ==
    /\ RegInit
    /\ \E n \in 1..MaxNumHops : \E keys \in [1..n -> Secrets] :
         this = WithShared(
                    PathCtor([numHops |-> n,
                              hops |-> [i \in 1..n |-> [router |-> "r1"]]],
                             [i \in 1..n |-> [txID |-> 1, rxID |-> 2]]),
                    keys)
    /\ input \in [msg : [enc : SeqsUpTo(Bytes, ScratchSize + 1),
                         fails : BOOLEAN]]
    /\ frames = <<>> /\ outbox = <<>> /\ parsed = <<>> /\ crypto = <<>>
    /\ touched = {} /\ cur = 0 /\ ret = NONE /\ pc = "call"
    /\ ConcIdle

\* Path::SendRoutingMessage(msg, r); SendToOrQueue accepts or rejects
DoSendRoutingMessage ==
    /\ pc = "call"
    /\ \E N \in Nonces, ok \in BOOLEAN :
         LET s == SendRoutingMessage(this, input.msg, N)
         IN IF s.encoded
            THEN /\ crypto' = UpstreamCalls(crypto, this.hops, N)
                 /\ outbox' = Append(outbox, [call |-> s.call, ok |-> ok])
                 /\ ret' = ok
            ELSE /\ ret' = FALSE
                 /\ UNCHANGED <<crypto, outbox>>
    /\ pc' = "returned"
    /\ UNCHANGED <<input, this, frames, parsed, touched, cur>>
    /\ UNCHANGED <<regVars, concVars>>

NextSend == DoSendRoutingMessage

SpecSend == InitSend /\ [][NextSend]_vars

\* ------------------------------------------------------------------- C17
\* C17: if encoding the message into the scratch buffer fails,
\* SendRoutingMessage returns false, applies no transform and sends nothing;
\* if it succeeds, exactly the bytes written are handed to HandleUpstream
\* with one freshly drawn nonce (one transform per hop with that nonce, one
\* relay-upstream message to hop[0].router), and what HandleUpstream returns
\* is returned.
C17_SendRoutingMessage ==
    pc = "returned" =>
        IF input.msg.fails \/ Len(input.msg.enc) > ScratchSize
        THEN ret = FALSE /\ crypto = <<>> /\ outbox = <<>>
        ELSE /\ Len(outbox) = 1
             /\ \E N \in Nonces :
                  /\ outbox[1].call = HandleUpstream(this, input.msg.enc, N)
                  /\ crypto = [i \in 1..Len(this.hops) |->
                                 [key |-> this.hops[i].shared, nonce |-> N]]
             /\ ret = outbox[1].ok

\* a message whose encoding is one byte longer than the scratch buffer was
\* refused, the encoder itself having no complaint
C17_Witness ==
    /\ pc = "returned"
    /\ Len(input.msg.enc) = ScratchSize + 1
    /\ ~input.msg.fails
    /\ ret = FALSE
    /\ outbox = <<>>

\* ================================== concurrent registry, later properties
\* ------------------------------------------------------------------- C18
\* C18: however PutTransitHop, with its two separately locked inserts,
\* interleaves with ExpirePaths on another thread, every pointer stored in
\* transit-paths refers to a TransitHop that has not been deleted: a sweep
\* between the two inserts never leaves a deleted hop registered under its
\* RX id.
C18_NoDeletedHopStored ==
    \A i \in DOMAIN m_TransitPaths : m_TransitPaths[i].v \notin freed

\* ------------------------------------------------------------------- C19
\* C19: no thread ever holds the lock of own-paths and the lock of
\* transit-paths at once (GetByUpstream has released the first before it
\* asks for the second), and no deadlock is reachable: a thread inside an
\* operation can take its next step, or waits for a lock whose holder can
\* take its next step and release it.
Inside(t) == tpc[t] \notin {"idle", "done"}

\* the next step of the operation thread t is in
Progress(t) ==
    \/ AddOwnPath_PutTx(t) \/ AddOwnPath_LockRx(t) \/ AddOwnPath_PutRx(t)
    \/ PutTransitHop_PutTx(t) \/ PutTransitHop_LockRx(t)
    \/ PutTransitHop_PutRx(t)
    \/ GetByUpstream_ScanOwn(t) \/ GetByUpstream_LockTransit(t)
    \/ GetByUpstream_ScanTransit(t)
    \/ GetByDownstream_Scan(t) \/ HasTransitHop_Scan(t)
    \/ ExpirePaths_Sweep(t)

MaxBuf == 3                       \* bytes in the buffer handed to a reader
Chars == {"d", "l", "e", "x"}     \* 'd', 'l', 'e' and any other byte

\* buffer->size_left()
size_left == Len(input.buf) - cur

\* *buffer->cur when the cursor is inside the buffer
Deref == input.buf[cur + 1]

\* the cursor is inside the buffer
InBuffer == cur < Len(input.buf)

\* a reader name and a buffer of 0..MaxBuf bytes
InitBencode ==
    /\ RegInit
    /\ input \in [fn : {"bencode_read_dict", "bencode_read_list"},
                  buf : SeqsUpTo(Chars, MaxBuf)]
    /\ this = NONE /\ frames = <<>> /\ outbox = <<>> /\ parsed = <<>>
    /\ crypto = <<>> /\ touched = {} /\ cur = 0 /\ ret = NONE /\ pc = "call"
    /\ ConcIdle

\* what every step of a reader leaves alone
ReaderFrame ==
    /\ UNCHANGED <<input, this, frames, outbox, parsed, crypto>>
    /\ UNCHANGED <<regVars, concVars>>

\* bencode_read_dict up to the loop: size check, 'd' check, cur++
bencode_read_dict_Open ==
    /\ pc = "call" /\ input.fn = "bencode_read_dict"
    /\ IF size_left < 2
       THEN /\ ret' = FALSE /\ pc' = "done"
            /\ UNCHANGED <<cur, touched>>
       ELSE /\ touched' = touched \cup {cur}
            /\ IF Deref # "d"
               THEN ret' = FALSE /\ pc' = "done" /\ UNCHANGED cur
               ELSE cur' = cur + 1 /\ pc' = "loop" /\ UNCHANGED ret
    /\ ReaderFrame

\* one turn of the dict loop: size_left() && *cur != 'e', then
\* bencode_read_string reads the key and the sink reads the value. Both are
\* passed in or declared elsewhere: each moves the cursor forward inside the
\* buffer and succeeds or fails
bencode_read_dict_Entry ==
    /\ pc = "loop" /\ input.fn = "bencode_read_dict"
    /\ size_left # 0
    /\ Deref # "e"
    /\ touched' = touched \cup {cur}
    /\ \E key \in 0..size_left, keyOk \in BOOLEAN :
         IF ~keyOk
         THEN cur' = cur + key /\ ret' = FALSE /\ pc' = "done"
         ELSE \E val \in 0..(size_left - key), sinkOk \in BOOLEAN :
                 /\ cur' = cur + key + val
                 /\ IF sinkOk THEN UNCHANGED <<ret, pc>>
                    ELSE ret' = FALSE /\ pc' = "done"
    /\ ReaderFrame

\* bencode_read_dict after the loop: if(*cur != 'e') return false; cur++;
\* return sink(buffer, nullptr). The loop is left with the cursor on an 'e'
\* or with size_left() == 0; in the second case *cur is a byte outside the
\* buffer, which may be anything
bencode_read_dict_Close ==
    /\ pc = "loop" /\ input.fn = "bencode_read_dict"
    /\ IF size_left = 0 THEN TRUE ELSE Deref = "e"
    /\ touched' = touched \cup {cur}
    /\ \E byte \in (IF InBuffer THEN {Deref} ELSE Chars), sinkOk \in BOOLEAN :
         IF byte # "e"
         THEN ret' = FALSE /\ UNCHANGED cur
         ELSE cur' = cur + 1 /\ ret' = sinkOk
    /\ pc' = "done"
    /\ ReaderFrame

\* bencode_read_list up to the loop: size check, 'l' check, cur++
bencode_read_list_Open ==
    /\ pc = "call" /\ input.fn = "bencode_read_list"
    /\ IF size_left < 2
       THEN /\ ret' = FALSE /\ pc' = "done"
            /\ UNCHANGED <<cur, touched>>
       ELSE /\ touched' = touched \cup {cur}
            /\ IF Deref # "l"
               THEN ret' = FALSE /\ pc' = "done" /\ UNCHANGED cur
               ELSE cur' = cur + 1 /\ pc' = "loop" /\ UNCHANGED ret
    /\ ReaderFrame

\* one turn of the list loop: size_left() && *cur != 'e', then
\* sink(buffer, true) reads an item
bencode_read_list_Entry ==
    /\ pc = "loop" /\ input.fn = "bencode_read_list"
    /\ size_left # 0
    /\ Deref # "e"
    /\ touched' = touched \cup {cur}
    /\ \E item \in 0..size_left, sinkOk \in BOOLEAN :
         /\ cur' = cur + item
         /\ IF sinkOk THEN UNCHANGED <<ret, pc>>
            ELSE ret' = FALSE /\ pc' = "done"
    /\ ReaderFrame

\* bencode_read_list after the loop: if(*cur != 'e') return false; cur++;
\* return sink(buffer, false)
bencode_read_list_Close ==
    /\ pc = "loop" /\ input.fn = "bencode_read_list"
    /\ IF size_left = 0 THEN TRUE ELSE Deref = "e"
    /\ touched' = touched \cup {cur}
    /\ \E byte \in (IF InBuffer THEN {Deref} ELSE Chars), sinkOk \in BOOLEAN :
         IF byte # "e"
         THEN ret' = FALSE /\ UNCHANGED cur
         ELSE cur' = cur + 1 /\ ret' = sinkOk
    /\ pc' = "done"
    /\ ReaderFrame

NextBencode ==
    \/ bencode_read_dict_Open \/ bencode_read_dict_Entry
    \/ bencode_read_dict_Close
    \/ bencode_read_list_Open \/ bencode_read_list_Entry
    \/ bencode_read_list_Close

SpecBencode == InitBencode /\ [][NextBencode]_vars

\* ------------------------------------------------------------------- C20
\* C20: bencode_read_dict and bencode_read_list never read a byte at or
\* beyond the end of the buffer: every dereference of the cursor happens
\* while size_left() > 0, also on input whose entries run to the end of the
\* buffer without a closing 'e', and the cursor never leaves the buffer.
C20_NoReadPastEnd ==
    /\ \A i \in touched : i < Len(input.buf)
    /\ cur <= Len(input.buf)
====
